---- MODULE Spec2Model ----
(***************************************************************************)
(* Model of PVRtransfer.py (Network PVR transfer script, Python 2).        *)
(*                                                                         *)
(* One invocation of the script is a sequential process; its position is   *)
(* inv[p].pc.  The environment is the TVHeadend schedule directory, the    *)
(* local recording directory, the share, the HTSP control channel, the     *)
(* mail sink and the wall clock.                                           *)
(*                                                                         *)
(* Time is counted in units of half the guard interval (pvr_interval is    *)
(* one hour in the source, 2 units here).  datetime values are integers.   *)
(***************************************************************************)
EXTENDS Integers, Sequences, FiniteSets, TLC

VARIABLES
    clock,      \* datetime.datetime.now()
    schedule,   \* descriptor files of the tvh directory, in os.listdir order
    deleted,    \* ids of descriptors TVHeadend removed after deleteDvrEntry
    localfs,    \* local file system: path -> content
    share,      \* files on the share: base name -> content
    inv         \* the invocations: process id -> its local state

vars == <<clock, schedule, deleted, localfs, share, inv>>

----------------------------------------------------------------------------
(* Bounds of the model *)

MaxSched == 2      \* descriptors in the schedule directory
MaxTicks == 1      \* clock steps during an invocation (SpecClock)
MaxCalls == 2      \* direct calls of generateChecksum (SpecChk)

(* Time is counted in half guard intervals.  The invocation starts at      *)
(* Clock0; a recording lasts one of Durations; the 'start' values put a    *)
(* descriptor before, at, and after each comparison the script makes with  *)
(* now and now + pvr_interval.                                             *)
Clock0 == {3}
Durations == {2}
Starts == 0..6

(* PVRtransfer.py:57  pvr_interval = datetime.timedelta(hours = 1) *)
pvr_interval == 2

(* Variant of the setting: checksums are recomputed when a sidecar exists *)
recompute_Forced == TRUE

(* PVRtransfer.py:56  recompute = False *)
recompute == FALSE

----------------------------------------------------------------------------
(* Paths.  A path is <<directory, stem, extension>>. *)

NoName == <<>>                       \* descriptor without a 'filename' key
RecA == <<"rec", "A", "ts">>
RecB == <<"rec", "B", "ts">>
Recordings == {RecA, RecB}

(* os.path.basename *)
basename(path) == <<path[2], path[3]>>

(* os.path.splitext(filepath)[0] *)
splitext(path) == <<path[1], path[2]>>

(* chkfile = '%s.sha2' % fn *)
chkfileOf(path) == <<splitext(path)[1], splitext(path)[2], "sha2">>

LocalPaths == Recordings \cup {chkfileOf(r) : r \in Recordings}
BaseNames == {basename(f) : f \in LocalPaths}

(* File contents.  NoFile: the path does not exist. *)
NoFile == <<>>
MediaContent == {<<"data", 1>>}

(* A sidecar that open(chkfile, 'w') created and that was never written *)
EmptyFile == <<"empty">>

exists(fs, path) == path \in DOMAIN fs /\ fs[path] # NoFile

(* generateFileChecksum: SHA-256 of the content *)
generateFileChecksum(content) == <<"sha256", content[2]>>

(* "%s *%s" % (chksum, fname) *)
sidecarContent(chksum, fname) == <<"sum", chksum, fname>>

----------------------------------------------------------------------------
(* Schedule descriptors.  wf = FALSE: the file is not parseable JSON or    *)
(* lacks 'start'/'stop'.                                                   *)

Malformed == [wf |-> FALSE, start |-> 0, stop |-> 0, filename |-> NoName]

(* 'filename' is read only when dte < now (line 369): a descriptor whose    *)
(* stop is not before the last clock value of the run never has the key    *)
(* looked at, and is given none.                                           *)
FilenamesAt(stop, last) == IF stop < last THEN {NoName} \cup Recordings ELSE {NoName}

Descriptors ==
    {Malformed} \cup
    {[wf |-> TRUE, start |-> s, stop |-> s + d, filename |-> f] :
        s \in Starts, d \in Durations, f \in {NoName} \cup Recordings}

DescriptorsUntil(last) == {d \in Descriptors : d.filename \in FilenamesAt(d.stop, last)}

RECURSIVE SeqsUpTo(_, _)
SeqsUpTo(S, n) ==
    IF n = 0 THEN {<<>>}
    ELSE LET shorter == SeqsUpTo(S, n - 1)
         IN shorter \cup {Append(q, x) : q \in {r \in shorter : Len(r) = n - 1}, x \in S}

(* The recordings the descriptors name *)
Named(sched) == {sched[i].filename : i \in 1..Len(sched)} \ {NoName}

(* schedules = [f for f in os.listdir(tvh) if os.path.isfile(...)] *)
listdir(sched, del) == SelectSeq([i \in 1..Len(sched) |-> i], LAMBDA i : i \notin del)

----------------------------------------------------------------------------
(* Command line *)

ProcIds == {1, 2}
MainProcs == {1}

WhiteSpace == {" ", "\n"}

RECURSIVE lstrip(_)
lstrip(s) == IF s # <<>> /\ Head(s) \in WhiteSpace THEN lstrip(Tail(s)) ELSE s

RECURSIVE rstrip(_)
rstrip(s) ==
    IF s # <<>> /\ s[Len(s)] \in WhiteSpace THEN rstrip(SubSeq(s, 1, Len(s) - 1)) ELSE s

(* str.strip() *)
strip(s) == rstrip(lstrip(s))

OK == <<"O", "K">>
ErrArgs == {<<"O", "K", "\n">>, <<"t", "u", "n", "e", "r">>}

NoErr == <<>>

(* sys.argv: flag, recording, error string; argc = len(sys.argv) *)
ArgVectors ==
    {[flag |-> "-p", argc |-> 2, rec |-> NoName, err |-> NoErr],
     [flag |-> "", argc |-> 1, rec |-> NoName, err |-> NoErr]} \cup
    {[flag |-> "", argc |-> 2, rec |-> r, err |-> NoErr] : r \in {RecA}} \cup
    {[flag |-> "", argc |-> 3, rec |-> r, err |-> e] : r \in {RecA}, e \in ErrArgs}

----------------------------------------------------------------------------
(* Process state *)

None == -1          \* Python None ('upcoming' not set, key absent, no exit status yet)

NoShare == [mounted |-> FALSE, writable |-> FALSE]

Idle ==
    [pc |-> "idle", argv |-> [flag |-> "", argc |-> 1, rec |-> NoName, err |-> NoErr],
     stage |-> "none", now |-> 0, upcoming |-> None,
     completed |-> {}, cur |-> 0, recfile |-> NoName,
     chkfile |-> NoName, shareState |-> NoShare, exitcode |-> None,
     ending |-> "none", alerts |-> <<>>, log |-> <<>>]

(* One entry of the history of an invocation *)
Event(op, stage, path, id, res, info) ==
    [op |-> op, stage |-> stage, path |-> path, id |-> id, res |-> res, info |-> info]

Set(p, r) == inv' = [inv EXCEPT ![p] = r]

(* sys.exit(code): SystemExit is not an Exception, no handler catches it *)
SysExit(r, code) == [r EXCEPT !.pc = "done", !.exitcode = code, !.ending = "exit"]

(* An exception leaves the current function.  processRecording is called  *)
(* outside any try (lines 549-560): the interpreter prints the traceback   *)
(* and exits with status 1.  processPreviousRecordings is called inside    *)
(* try/except Exception (lines 541-546, 562-567): the exception is logged  *)
(* and the script ends normally.                                           *)
Raise(r, what) ==
    IF r.stage = "single"
    THEN [r EXCEPT !.pc = "done", !.exitcode = 1, !.ending = "uncaught",
                   !.log = Append(@, Event("raise", r.stage, NoName, 0, what, <<>>))]
    ELSE [r EXCEPT !.pc = "done", !.exitcode = 0, !.ending = "caught",
                   !.log = Append(@, Event("raise", r.stage, NoName, 0, what, <<>>))]

(* Alerts handed to sendEmail *)
Alert(kind, rec, chk, text) == [kind |-> kind, rec |-> rec, chk |-> chk, text |-> text]

(* alertShare(msg), lines 80-84 *)
alertShare(r, msg) == [r EXCEPT !.alerts = Append(@, Alert("share", NoName, NoName, <<msg>>))]

(* alertTransfer(recording, checksum, error), lines 87-92 *)
alertTransfer(r, recording, checksum, error) ==
    [r EXCEPT !.alerts = Append(@, Alert("transfer", recording, checksum, <<error>>))]

(* Variant of alertTVHError that hands nothing to sendEmail *)
alertTVHError_Silent(r, recording, error) == r

(* alertTVHError(recording, error), lines 95-102 *)
alertTVHError(r, recording, error) ==
    [r EXCEPT !.alerts = Append(@, Alert("tvh", recording, NoName, error))]

----------------------------------------------------------------------------
(* Conflict window: the comparisons of checkRecordings / checkForRecordings *)

(* dts < now < dte *)
inProgress(now, dts, dte) == dts < now /\ now < dte

(* Variant of the comparison that counts a start at the limit as imminent *)
imminent_Inclusive(now, dts, limit) == now < dts /\ dts <= limit

(* now < dts < limit *)
imminent(now, dts, limit) == now < dts /\ dts < limit

RECURSIVE checkRecordingsFrom(_, _, _, _)
checkRecordingsFrom(sched, ids, i, now) ==
    IF i > Len(ids) THEN "clear"
    ELSE LET content == sched[ids[i]]
         IN IF ~content.wf THEN "exception"
            ELSE IF inProgress(now, content.start, content.stop) THEN "current"
            ELSE IF imminent(now, content.start, now + pvr_interval) THEN "next"
            ELSE checkRecordingsFrom(sched, ids, i + 1, now)

(* checkRecordings(): "clear", "current"/"next" (sys.exit(0)), "exception" *)
checkRecordings(sched, del, now) == checkRecordingsFrom(sched, listdir(sched, del), 1, now)

----------------------------------------------------------------------------
(* Start of an invocation *)

Invoke(p) ==
    /\ inv[p].pc = "idle"
    /\ \E a \in ArgVectors : Set(p, [inv[p] EXCEPT !.pc = "main", !.argv = a])
    /\ UNCHANGED <<clock, schedule, deleted, localfs, share>>

(* Variant of processRecording that starts at the share probe *)
processRecording_NoCheck(r, recording) ==
    [r EXCEPT !.pc = "checkShare", !.stage = "single", !.recfile = recording]

(* processRecording(recording): entry *)
processRecording(r, recording) ==
    [r EXCEPT !.pc = "checkRecordings", !.stage = "single", !.recfile = recording]

(* processPreviousRecordings(): entry *)
processPreviousRecordings(r) ==
    [r EXCEPT !.pc = "checkForRecordings", !.stage = "backlog"]

(* elif '-p' in sys.argv *)
MainPrevious(p) ==
    /\ inv[p].pc = "main"
    /\ inv[p].argv.flag = "-p"
    /\ Set(p, processPreviousRecordings(inv[p]))
    /\ UNCHANGED <<clock, schedule, deleted, localfs, share>>

(* else: if args > 2 and hts_err.strip() == 'OK' *)
MainOK(p) ==
    /\ inv[p].pc = "main"
    /\ inv[p].argv.flag = ""
    /\ inv[p].argv.argc > 2
    /\ strip(inv[p].argv.err) = OK
    /\ Set(p, processRecording(inv[p], inv[p].argv.rec))
    /\ UNCHANGED <<clock, schedule, deleted, localfs, share>>

(* Variant of the upstream-error branch that alerts and then processes the *)
(* recording as if the error argument had been 'OK'                        *)
MainUpstreamError_Process(p) ==
    /\ inv[p].pc = "main"
    /\ inv[p].argv.flag = ""
    /\ inv[p].argv.argc > 2
    /\ strip(inv[p].argv.err) # OK
    /\ Set(p, processRecording(
                  alertTVHError(inv[p], inv[p].argv.rec, inv[p].argv.err), inv[p].argv.rec))
    /\ UNCHANGED <<clock, schedule, deleted, localfs, share>>

(* else: if args > 2, hts_err.strip() != 'OK': alertTVHError, then the     *)
(* try block with processPreviousRecordings                                *)
MainUpstreamError(p) ==
    /\ inv[p].pc = "main"
    /\ inv[p].argv.flag = ""
    /\ inv[p].argv.argc > 2
    /\ strip(inv[p].argv.err) # OK
    /\ Set(p, processPreviousRecordings(
                  alertTVHError(inv[p], inv[p].argv.rec, inv[p].argv.err)))
    /\ UNCHANGED <<clock, schedule, deleted, localfs, share>>

(* else: elif args > 1 *)
MainRecording(p) ==
    /\ inv[p].pc = "main"
    /\ inv[p].argv.flag = ""
    /\ inv[p].argv.argc = 2
    /\ Set(p, processRecording(inv[p], inv[p].argv.rec))
    /\ UNCHANGED <<clock, schedule, deleted, localfs, share>>

(* else: no argument, only the try block *)
MainNoArgs(p) ==
    /\ inv[p].pc = "main"
    /\ inv[p].argv.flag = ""
    /\ inv[p].argv.argc = 1
    /\ Set(p, processPreviousRecordings(inv[p]))
    /\ UNCHANGED <<clock, schedule, deleted, localfs, share>>

----------------------------------------------------------------------------
(* checkRecordings, lines 269-296 *)

CheckRecordings(p) ==
    LET r == inv[p]
        now == clock
        res == checkRecordings(schedule, deleted, now)
        logged == [r EXCEPT !.now = now,
                            !.log = Append(@, Event("checkRecordings", r.stage, NoName, 0, res, <<now>>))]
    IN  /\ r.pc = "checkRecordings"
        /\ Set(p, CASE res = "clear" -> [logged EXCEPT !.pc = "checkShare"]
                    [] res = "exception" -> Raise(logged, "schedule")
                    [] OTHER -> SysExit(logged, 0))
        /\ UNCHANGED <<clock, schedule, deleted, localfs, share>>

----------------------------------------------------------------------------
(* checkShare(report), lines 214-266.  What the probe meets:               *)
(*   "ok"         mounted, the test file is written and removed            *)
(*   "unwritable" mounted, open(testfile, 'w') raises IOError              *)
(*   "removefail" mounted, the test file is written, os.remove raises      *)
(*   "unmounted"  os.path.ismount is False                                 *)
(*   "exception"  another exception inside the outer try                   *)
(*   "timeout"    SIGALRM fires during os.path.ismount: handleShareError   *)

ShareOutcomes == {"ok", "unwritable", "removefail", "unmounted", "exception", "timeout"}

(* Variant of checkShare that reports an unwritable share to its caller    *)
(* instead of alerting and exiting                                         *)
checkShare_Lenient(outcome, report) ==
    CASE outcome = "ok" ->
           [mounted |-> TRUE, writable |-> TRUE, alert |-> "", exit |-> FALSE]
      [] outcome = "unwritable" ->
           [mounted |-> TRUE, writable |-> FALSE, alert |-> "", exit |-> FALSE]
      [] OTHER ->
           [mounted |-> FALSE, writable |-> FALSE, alert |-> "Error checking share", exit |-> TRUE]

(* The (mounted, writable) pair and whether the probe alerts and exits *)
checkShare(outcome, report) ==
    CASE outcome = "ok" ->
           [mounted |-> TRUE, writable |-> TRUE, alert |-> "", exit |-> FALSE]
      [] outcome = "unwritable" ->
           [mounted |-> TRUE, writable |-> FALSE,
            alert |-> IF report THEN "Unable to write to share" ELSE "", exit |-> report]
      [] outcome = "removefail" ->
           [mounted |-> TRUE, writable |-> TRUE,
            alert |-> IF report THEN "Error checking share" ELSE "", exit |-> report]
      [] outcome = "unmounted" ->
           [mounted |-> FALSE, writable |-> FALSE,
            alert |-> IF report THEN "Share is not mounted" ELSE "", exit |-> report]
      [] outcome = "exception" ->
           [mounted |-> FALSE, writable |-> FALSE,
            alert |-> IF report THEN "Error checking share" ELSE "", exit |-> report]
      [] outcome = "timeout" ->  \* handleShareError, lines 105-111
           [mounted |-> FALSE, writable |-> FALSE, alert |-> "Stale share mount!", exit |-> TRUE]

CheckShare(p) ==
    LET r == inv[p]
    IN  /\ r.pc = "checkShare"
        /\ \E outcome \in ShareOutcomes :
             LET res == checkShare(outcome, TRUE)
                 st == [mounted |-> res.mounted, writable |-> res.writable]
                 logged == [r EXCEPT !.shareState = st,
                                     !.log = Append(@, Event("checkShare", r.stage, NoName, 0, outcome, <<>>))]
             IN Set(p, IF res.exit
                       THEN SysExit(alertShare(logged, res.alert), 1)
                       ELSE [logged EXCEPT !.pc = IF r.stage = "single"
                                                  THEN "generateChecksum"
                                                  ELSE "processNext"])
        /\ UNCHANGED <<clock, schedule, deleted, localfs, share>>

----------------------------------------------------------------------------
(* generateChecksum(filepath), lines 133-151 *)

(* What the reads and writes of generateChecksum meet: "ok"; "IOError",   *)
(* the media file cannot be read or the sidecar cannot be opened;          *)
(* "truncated", open(chkfile, 'w') created the sidecar and write/close     *)
(* raised IOError (disk full).                                             *)
WriteOutcomes == {"ok", "IOError", "truncated"}

(* The local file system after generateChecksum, and what it did:          *)
(* "kept" (sidecar found, nothing computed), "wrote", or "IOError".        *)
generateChecksum(fs, filepath, outcome) ==
    LET fname == basename(filepath)
        chkfile == chkfileOf(filepath)
        existing == exists(fs, chkfile)
    IN  IF ~existing \/ recompute
        THEN IF ~exists(fs, filepath) \/ outcome = "IOError"
             THEN [fs |-> fs, chkfile |-> chkfile, res |-> "IOError"]
             ELSE IF outcome = "truncated"
             THEN [fs |-> [fs EXCEPT ![chkfile] = EmptyFile],
                   chkfile |-> chkfile, res |-> "IOError"]
             ELSE [fs |-> [fs EXCEPT ![chkfile] =
                               sidecarContent(generateFileChecksum(fs[filepath]), fname)],
                   chkfile |-> chkfile, res |-> "wrote"]
        ELSE [fs |-> fs, chkfile |-> chkfile, res |-> "kept"]

GenerateChecksum(p) ==
    LET r == inv[p]
    IN  /\ r.pc = "generateChecksum"
        /\ \E outcome \in WriteOutcomes :
             LET g == generateChecksum(localfs, r.recfile, outcome)
                 logged == [r EXCEPT !.log = Append(@, Event("generateChecksum", r.stage, r.recfile, r.cur, g.res, <<>>))]
             IN /\ localfs' = g.fs
                /\ Set(p, IF g.res = "IOError"
                          THEN Raise(logged, "IOError")
                          ELSE [logged EXCEPT !.pc = "moveRecording", !.chkfile = g.chkfile])
        /\ UNCHANGED <<clock, schedule, deleted, share>>

----------------------------------------------------------------------------
(* moveRecording(recording, chkfile), lines 299-318 *)

(* What one shutil.move meets: it succeeds, raises shutil.Error, or raises *)
(* IOError/OSError (destination not writable, source missing, disk full).  *)
MoveOutcomes == {"ok", "Error", "IOError"}

(* shutil.move(src, os.path.join(shared_path, basename(src))) *)
shutilMove(fs, sh, src, outcome) ==
    IF ~exists(fs, src) THEN [fs |-> fs, sh |-> sh, res |-> "IOError"]
    ELSE IF outcome # "ok" THEN [fs |-> fs, sh |-> sh, res |-> outcome]
    ELSE [fs |-> [fs EXCEPT ![src] = NoFile],
          sh |-> [sh EXCEPT ![basename(src)] = fs[src]],
          res |-> "ok"]

(* The try block: the two moves in turn; the first failure ends it *)
moveBoth(fs, sh, recording, chkfile, o1, o2) ==
    LET m1 == shutilMove(fs, sh, recording, o1)
        m2 == shutilMove(m1.fs, m1.sh, chkfile, o2)
    IN  IF m1.res # "ok" THEN [fs |-> m1.fs, sh |-> m1.sh, res |-> m1.res, step |-> "media"]
        ELSE [fs |-> m2.fs, sh |-> m2.sh, res |-> m2.res, step |-> "sidecar"]

(* except shutil.Error: the only exception moveRecording handles *)
caughtByMove(res) == res = "Error"

(* Where the caller of moveRecording goes on: processRecording returns to  *)
(* the main block, which calls processPreviousRecordings; the loop of      *)
(* processPreviousRecordings takes its next item.                          *)
afterMove(r) ==
    IF r.stage = "single" THEN processPreviousRecordings(r)
    ELSE [r EXCEPT !.pc = "processNext"]

MoveRecording(p) ==
    LET r == inv[p]
    IN  /\ r.pc = "moveRecording"
        /\ \E o1 \in MoveOutcomes, o2 \in MoveOutcomes :
             LET m == moveBoth(localfs, share, r.recfile, r.chkfile, o1, o2)
                 logged == [r EXCEPT !.log = Append(@, Event("moveRecording", r.stage, r.recfile, r.cur, m.res, <<m.step>>))]
             IN /\ localfs' = m.fs
                /\ share' = m.sh
                /\ Set(p, IF m.res = "ok" THEN afterMove(logged)
                          ELSE IF caughtByMove(m.res)
                          THEN afterMove(alertTransfer(logged, r.recfile, r.chkfile, m.res))
                          ELSE Raise(logged, m.res))
        /\ UNCHANGED <<clock, schedule, deleted>>

----------------------------------------------------------------------------
(* checkForRecordings(abort), lines 339-405 *)

(* Values of content['errors'] / content['data_errors']; None: key absent *)
KeyVals == {None, 0, 1}

(* What htspconn.recv() returns after deleteDvrEntry; "none": None *)
Responses == {"success", "error", "unknown", "none"}

(* Variant of the elif condition that does not look at data_errors *)
reconcile_AnyDataErrors(errors, data_errors, htspconn, resp) ==
    IF errors = None THEN "KeyError"
    ELSE IF errors # 0 THEN "skip"
    ELSE IF ~htspconn THEN "skip"
    ELSE IF resp = "none" THEN "AttributeError"
    ELSE resp

(* Lines 376-384: the elif condition, left to right, and the request *)
reconcile(errors, data_errors, htspconn, resp) ==
    IF errors = None THEN "KeyError"
    ELSE IF errors # 0 THEN "skip"
    ELSE IF data_errors = None THEN "KeyError"
    ELSE IF data_errors # 0 THEN "skip"
    ELSE IF ~htspconn THEN "skip"
    ELSE IF resp = "none" THEN "AttributeError"   \* None.has_key
    ELSE resp

(* dte < now and content.has_key('filename') *)
isCompleted(now, dte, filename) == dte < now /\ filename # NoName

(* if dts > now: if upcoming is None or dts < upcoming: upcoming = dts *)
nextUpcoming(upcoming, now, dts) ==
    IF dts > now /\ (upcoming = None \/ dts < upcoming) THEN dts ELSE upcoming

(* upcoming < limit: comparing None with a datetime raises TypeError *)
beforeLimit(upcoming, limit) ==
    IF upcoming = None THEN "TypeError"
    ELSE IF upcoming < limit THEN "yes" ELSE "no"

(* What a pass of the loop reads beyond start/stop/filename when the       *)
(* recording's file is gone: the two error counts and the answer to the    *)
(* delete request.  A value the condition never gets to is left at None.   *)
Draws == [errors : KeyVals, data_errors : KeyVals, resp : Responses]

DrawSet(conn) ==
    {d \in Draws :
        /\ d.errors # 0 => d.data_errors = None
        /\ (d.errors # 0 \/ d.data_errors # 0 \/ ~conn) => d.resp = "none"}

(* The descriptors whose recording is over and whose file is gone *)
StaleIds(sched, del, fs, now) ==
    {s \in 1..Len(sched) :
        /\ s \notin del
        /\ sched[s].wf
        /\ isCompleted(now, sched[s].stop, sched[s].filename)
        /\ ~exists(fs, sched[s].filename)}

(* Local variables of checkForRecordings, lines 345-346, and how it goes on *)
cfrLocals ==
    [completed |-> {}, upcoming |-> None, deleted |-> {}, events |-> <<>>,
     status |-> "run", what |-> ""]

(* One pass of the for loop, lines 357-394.  e: what the function was      *)
(* called with and what it reads; acc: its local variables.                *)
cfrPass(e, acc, s) ==
    LET content == e.sched[s]
    IN  IF ~content.wf THEN [acc EXCEPT !.status = "raise", !.what = "schedule"]
        ELSE
          LET found == isCompleted(e.now, content.stop, content.filename)
                       /\ exists(e.fs, content.filename)
              stale == isCompleted(e.now, content.stop, content.filename)
                       /\ ~exists(e.fs, content.filename)
              d == e.ds[s]
              rec == IF stale THEN reconcile(d.errors, d.data_errors, e.conn, d.resp)
                     ELSE "skip"
              acc1 == [acc EXCEPT
                         !.completed = IF found THEN @ \cup {s} ELSE @,
                         !.events = IF stale
                                    THEN Append(@, Event("reconcile", "backlog", content.filename, s, rec,
                                                         IF rec \in Responses \cup {"AttributeError"}
                                                         THEN <<d.errors, d.data_errors, e.conn>> ELSE <<>>))
                                    ELSE @]
              acc2 == [acc1 EXCEPT
                         !.deleted = IF rec = "success" THEN @ \cup {s} ELSE @,
                         !.upcoming = nextUpcoming(@, e.now, content.start)]
          IN  IF rec \in {"KeyError", "AttributeError"}
              THEN [acc1 EXCEPT !.status = "raise", !.what = rec]
              ELSE IF inProgress(e.now, content.start, content.stop) /\ e.abort
              THEN [acc2 EXCEPT !.status = "exit", !.what = "current"]
              ELSE acc2

RECURSIVE cfrLoop(_, _, _, _)
cfrLoop(e, acc, ids, i) ==
    IF i > Len(ids) \/ acc.status # "run" THEN acc
    ELSE cfrLoop(e, cfrPass(e, acc, ids[i]), ids, i + 1)

(* After the loop, lines 396-405 *)
cfrEnd(e, acc) ==
    LET cmp == beforeLimit(acc.upcoming, e.now + pvr_interval)
    IN  IF acc.status # "run" THEN acc
        ELSE IF cmp = "TypeError" THEN [acc EXCEPT !.status = "raise", !.what = "TypeError"]
        ELSE IF cmp = "yes" /\ e.abort THEN [acc EXCEPT !.status = "exit", !.what = "next"]
        ELSE IF Cardinality(acc.completed) < 1 /\ e.abort
        THEN [acc EXCEPT !.status = "exit", !.what = "nothing"]
        ELSE [acc EXCEPT !.status = "return", !.what = "clear"]

checkForRecordings(sched, del, fs, now, abort, conn, ds) ==
    LET e == [sched |-> sched, fs |-> fs, now |-> now, abort |-> abort, conn |-> conn, ds |-> ds]
    IN  cfrEnd(e, cfrLoop(e, cfrLocals, listdir(sched, del), 1))

(* conn: whether createHTSPConn gave a connection (None when the tvh.htsp  *)
(* import or the connection failed).                                       *)
CheckForRecordings(p) ==
    LET r == inv[p]
        now == clock
    IN  /\ r.pc = "checkForRecordings"
        /\ \E conn \in BOOLEAN :
           \E ds \in [StaleIds(schedule, deleted, localfs, now) -> DrawSet(conn)] :
             LET res == checkForRecordings(schedule, deleted, localfs, now, TRUE, conn, ds)
                 r1 == [r EXCEPT !.now = now,
                                 !.completed = res.completed, !.upcoming = res.upcoming,
                                 !.log = Append(@ \o res.events,
                                                Event("checkForRecordings", r.stage, NoName, 0, res.what, <<now>>))]
             IN /\ deleted' = deleted \cup res.deleted
                /\ Set(p, CASE res.status = "raise" -> Raise(r1, res.what)
                            [] res.status = "exit" -> SysExit(r1, 0)
                            [] OTHER -> [r1 EXCEPT !.pc = "checkShare"])
        /\ UNCHANGED <<clock, schedule, localfs, share>>

----------------------------------------------------------------------------
(* processPreviousRecordings, the loop of lines 417-431 *)

(* Variant of the loop that goes on to the checksum without comparing the  *)
(* upcoming start with the limit                                           *)
ProcessNext_NoRecheck(p) ==
    LET r == inv[p]
    IN  /\ r.pc = "processNext"
        /\ r.completed # {}
        /\ \E k \in r.completed :
             Set(p, [r EXCEPT !.now = clock, !.completed = @ \ {k}, !.cur = k,
                              !.recfile = schedule[k].filename,
                              !.pc = "generateChecksum",
                              !.log = Append(@, Event("recheck", r.stage, schedule[k].filename, k, "clear", <<clock>>))])
        /\ UNCHANGED <<clock, schedule, deleted, localfs, share>>

(* for r in recordings: the next key, in the dictionary's order *)
ProcessNext(p) ==
    LET r == inv[p]
    IN  /\ r.pc = "processNext"
        /\ r.completed # {}
        /\ \E k \in r.completed :
             LET now == clock
                 limit == now + pvr_interval
                 r1 == [r EXCEPT !.now = now, !.completed = @ \ {k}, !.cur = k,
                                 !.recfile = schedule[k].filename]
             IN Set(p, IF r.upcoming < limit
                       THEN SysExit([r1 EXCEPT !.log = Append(@, Event("recheck", r.stage, schedule[k].filename, k, "skipped", <<now>>))], 0)
                       ELSE [r1 EXCEPT !.pc = "generateChecksum",
                                       !.log = Append(@, Event("recheck", r.stage, schedule[k].filename, k, "clear", <<now>>))])
        /\ UNCHANGED <<clock, schedule, deleted, localfs, share>>

(* The loop is over: processPreviousRecordings returns, the script ends *)
ProcessEnd(p) ==
    LET r == inv[p]
    IN  /\ r.pc = "processNext"
        /\ r.completed = {}
        /\ Set(p, [r EXCEPT !.pc = "done", !.exitcode = 0, !.ending = "returned"])
        /\ UNCHANGED <<clock, schedule, deleted, localfs, share>>

----------------------------------------------------------------------------
(* scriptTest(), lines 434-483: the diagnostics invocation ('-t').  Every  *)
(* check runs inside its own try/except Exception, which turns an          *)
(* exception into the text of the check's line of the report; sys.exit     *)
(* (SystemExit) is not an Exception and passes through.                    *)

TestArgs == [flag |-> "-t", argc |-> 2, rec |-> NoName, err |-> NoErr]

InvokeTest(p) ==
    /\ inv[p].pc = "idle"
    /\ Set(p, [inv[p] EXCEPT !.pc = "main", !.argv = TestArgs])
    /\ UNCHANGED <<clock, schedule, deleted, localfs, share>>

(* if '-t' in sys.argv: scriptTest() *)
MainTest(p) ==
    /\ inv[p].pc = "main"
    /\ inv[p].argv.flag = "-t"
    /\ Set(p, [inv[p] EXCEPT !.pc = "testChecksum", !.stage = "test"])
    /\ UNCHANGED <<clock, schedule, deleted, localfs, share>>

(* What a check of scriptTest meets: it returns, or raises an Exception *)
TestOutcomes == {"ok", "exception"}

(* One line of the report: the check and what it came to *)
TestLine(r, op, res, next) ==
    [r EXCEPT !.pc = next,
              !.log = Append(@, Event(op, "test", NoName, 0, res, <<>>))]

(* lines 438-441: generateFileChecksum(__file__) *)
TestChecksum(p) ==
    /\ inv[p].pc = "testChecksum"
    /\ \E o \in TestOutcomes : Set(p, TestLine(inv[p], "generateFileChecksum", o, "testShare"))
    /\ UNCHANGED <<clock, schedule, deleted, localfs, share>>

(* lines 444-448: checkShare(False) *)
TestShare(p) ==
    LET r == inv[p]
    IN  /\ r.pc = "testShare"
        /\ \E outcome \in ShareOutcomes :
             LET res == checkShare(outcome, FALSE)
                 st == [mounted |-> res.mounted, writable |-> res.writable]
                 logged == TestLine([r EXCEPT !.shareState = st], "checkShare", outcome, "testRecordings")
             IN Set(p, IF res.exit
                       THEN SysExit(alertShare(logged, res.alert), 1)
                       ELSE logged)
        /\ UNCHANGED <<clock, schedule, deleted, localfs, share>>

(* lines 451-455: checkForRecordings(False); an exception becomes rec_msg *)
TestRecordings(p) ==
    LET r == inv[p]
        now == clock
    IN  /\ r.pc = "testRecordings"
        /\ \E conn \in BOOLEAN :
           \E ds \in [StaleIds(schedule, deleted, localfs, now) -> DrawSet(conn)] :
             LET res == checkForRecordings(schedule, deleted, localfs, now, FALSE, conn, ds)
                 r1 == [r EXCEPT !.now = now,
                                 !.log = Append(@ \o res.events,
                                                Event("checkForRecordings", "test", NoName, 0, res.what, <<now>>))]
             IN /\ deleted' = deleted \cup res.deleted
                /\ Set(p, CASE res.status = "exit" -> SysExit(r1, 0)
                            [] res.status = "raise" -> [r1 EXCEPT !.pc = "testTVH"]
                            [] OTHER -> [r1 EXCEPT !.pc = "testTVH",
                                                   !.completed = res.completed,
                                                   !.upcoming = res.upcoming])
        /\ UNCHANGED <<clock, schedule, localfs, share>>

(* lines 458-462: checkTVH() *)
TestTVH(p) ==
    /\ inv[p].pc = "testTVH"
    /\ \E o \in TestOutcomes : Set(p, TestLine(inv[p], "checkTVH", o, "testHTSP"))
    /\ UNCHANGED <<clock, schedule, deleted, localfs, share>>

(* lines 465-469: checkHTSP() *)
TestHTSP(p) ==
    /\ inv[p].pc = "testHTSP"
    /\ \E o \in TestOutcomes : Set(p, TestLine(inv[p], "checkHTSP", o, "testSpace"))
    /\ UNCHANGED <<clock, schedule, deleted, localfs, share>>

(* lines 472-476: checkLocalFreeSpace() *)
TestFreeSpace(p) ==
    /\ inv[p].pc = "testSpace"
    /\ \E o \in TestOutcomes : Set(p, TestLine(inv[p], "checkLocalFreeSpace", o, "testReport"))
    /\ UNCHANGED <<clock, schedule, deleted, localfs, share>>

(* lines 479-483: the report is mailed; scriptTest returns, the script ends *)
TestReport(p) ==
    LET r == inv[p]
        lines == SelectSeq(r.log, LAMBDA ev : ev.stage = "test" /\ ev.op # "reconcile")
        text == [i \in 1..Len(lines) |-> <<lines[i].op, lines[i].res>>]
    IN  /\ r.pc = "testReport"
        /\ Set(p, [r EXCEPT !.pc = "done", !.exitcode = 0, !.ending = "returned",
                            !.alerts = Append(@, Alert("report", NoName, NoName, text))])
        /\ UNCHANGED <<clock, schedule, deleted, localfs, share>>

StepTest(p) ==
    \/ InvokeTest(p)
    \/ MainTest(p)
    \/ TestChecksum(p)
    \/ TestShare(p)
    \/ TestRecordings(p)
    \/ TestTVH(p)
    \/ TestHTSP(p)
    \/ TestFreeSpace(p)
    \/ TestReport(p)

----------------------------------------------------------------------------
(* generateChecksum called on its own, on any state of the recording       *)
(* directory: media file absent or present with either content, sidecar    *)
(* absent, empty, or holding the sum of either content.                    *)

ChkMedia == {<<"data", 1>>, <<"data", 2>>}

ChkSidecars(rec) ==
    {NoFile, EmptyFile} \cup
    {sidecarContent(generateFileChecksum(c), basename(rec)) : c \in ChkMedia}

InitChk ==
    /\ clock \in Clock0
    /\ schedule = <<>>
    /\ deleted = {}
    /\ localfs \in [LocalPaths -> {NoFile} \cup ChkMedia \cup UNION {ChkSidecars(rec) : rec \in Recordings}]
    /\ \A rec \in Recordings : /\ localfs[rec] \in {NoFile} \cup ChkMedia
                                /\ localfs[chkfileOf(rec)] \in ChkSidecars(rec)
    /\ share = [b \in BaseNames |-> NoFile]
    /\ inv = [p \in ProcIds |-> Idle]

(* chkfile = generateChecksum(filepath): the call, the path it returns and *)
(* what the sidecar holds afterwards                                       *)
CallGenerateChecksum(p) ==
    LET r == inv[p]
    IN  /\ r.pc = "idle"
        /\ Len(r.log) < MaxCalls
        /\ \E filepath \in Recordings, outcome \in WriteOutcomes :
             LET g == generateChecksum(localfs, filepath, outcome)
             IN /\ localfs' = g.fs
                /\ Set(p, [r EXCEPT !.log = Append(@, Event("generateChecksum", "call", filepath, 0, g.res,
                                                            <<g.chkfile, g.fs[g.chkfile]>>))])
        /\ UNCHANGED <<clock, schedule, deleted, share>>

NextChk == \E p \in MainProcs : CallGenerateChecksum(p)

SpecChk == InitChk /\ [][NextChk]_vars

----------------------------------------------------------------------------
(* The wall clock advances while an invocation runs.  The script looks at  *)
(* the clock in checkRecordings (272), checkForRecordings (343) and in the *)
(* loop of processPreviousRecordings (422): the time that passed since the *)
(* previous look shows there.                                              *)
ReadsClock(pc) == pc \in {"checkRecordings", "checkForRecordings", "processNext"}

(* The steps that take time: the share probe (up to SHARETIMEOUT), the     *)
(* digest of the media file and the move to the share.  An invocation is   *)
(* at such a step from the moment the step starts until it is over, and    *)
(* the clock advances during these steps.                                  *)
TakesTime(pc) == pc \in {"checkShare", "generateChecksum", "moveRecording"}

Tick ==
    /\ \E c0 \in Clock0 : clock < c0 + MaxTicks
    /\ \E p \in ProcIds : TakesTime(inv[p].pc)
    /\ clock' = clock + 1
    /\ UNCHANGED <<schedule, deleted, localfs, share, inv>>

----------------------------------------------------------------------------
(* The environment an invocation starts in; last: the last clock value *)
InitUntil(last) ==
    /\ clock \in Clock0
    /\ schedule \in SeqsUpTo(DescriptorsUntil(last), MaxSched)
    /\ deleted = {}
    /\ \E present \in SUBSET ({RecA} \cup Named(schedule)) :
         localfs = [f \in LocalPaths |-> IF f \in present THEN <<"data", 1>> ELSE NoFile]
    /\ share = [b \in BaseNames |-> NoFile]
    /\ inv = [p \in ProcIds |-> Idle]

(* The clock stands still during the invocation *)
Init == \E c0 \in Clock0 : InitUntil(c0)

(* The clock may advance during the invocation.  The runs with time       *)
(* passing start from a schedule whose descriptors all parse and whose     *)
(* recordings are all on disk.                                             *)
InitClock ==
    /\ \E c0 \in Clock0 : InitUntil(c0 + MaxTicks)
    /\ \A i \in 1..Len(schedule) : schedule[i].wf
    /\ \A f \in {RecA} \cup Named(schedule) : exists(localfs, f)

Step(p) ==
    \/ Invoke(p)
    \/ MainPrevious(p)
    \/ MainOK(p)
    \/ MainUpstreamError(p)
    \/ MainRecording(p)
    \/ MainNoArgs(p)
    \/ CheckRecordings(p)
    \/ CheckShare(p)
    \/ GenerateChecksum(p)
    \/ MoveRecording(p)
    \/ CheckForRecordings(p)
    \/ ProcessNext(p)
    \/ ProcessEnd(p)

Next == \E p \in MainProcs : Step(p)

Spec == Init /\ [][Next]_vars

(* The diagnostics invocation *)
NextTest == \E p \in MainProcs : StepTest(p)

SpecTest == Init /\ [][NextTest]_vars

(* A later invocation: once the invocations before it have ended, the      *)
(* periodic sweep ('-p') runs on what they left behind.                    *)
LaterProcs == ProcIds \ MainProcs

InvokeLater(p) ==
    /\ inv[p].pc = "idle"
    /\ \A q \in MainProcs : inv[q].pc = "done"
    /\ Set(p, [inv[p] EXCEPT !.pc = "main",
                             !.argv = [flag |-> "-p", argc |-> 2, rec |-> NoName, err |-> NoErr]])
    /\ UNCHANGED <<clock, schedule, deleted, localfs, share>>

StepLater(p) ==
    \/ InvokeLater(p)
    \/ MainPrevious(p)
    \/ CheckForRecordings(p)
    \/ CheckShare(p)
    \/ ProcessNext(p)
    \/ GenerateChecksum(p)
    \/ MoveRecording(p)
    \/ ProcessEnd(p)

NextRetry ==
    \/ \E p \in MainProcs : Step(p)
    \/ \E p \in LaterProcs : StepLater(p)

SpecRetry == Init /\ [][NextRetry]_vars

(* The recording directory as earlier invocations can have left it.  A     *)
(* second media file shares the stem of the first (same directory, other   *)
(* extension), so both derive the same sidecar path (lines 136-137).  The  *)
(* media file holds either content; the sidecar at the derived path is     *)
(* absent, empty (a write that failed), or was written by generateChecksum *)
(* for either media file of that stem when it held either content.         *)
RecA2 == <<"rec", "A", "mkv">>

(* A media file of the same base name in another directory: its            *)
(* destination on the share is that of RecA (lines 303-305).               *)
RecAOld == <<"old", "A", "ts">>

HistRecordings == Recordings \cup {RecA2, RecAOld}

HistPaths == HistRecordings \cup {chkfileOf(r) : r \in HistRecordings}

SameStem(rec) == {m \in HistRecordings : chkfileOf(m) = chkfileOf(rec)}

HistSidecars(rec) ==
    {NoFile, EmptyFile} \cup
    {sidecarContent(generateFileChecksum(c), basename(m)) : c \in ChkMedia, m \in SameStem(rec)}

InitHist ==
    /\ clock \in Clock0
    /\ schedule \in SeqsUpTo(DescriptorsUntil(clock), MaxSched)
    /\ \A i \in 1..Len(schedule) : schedule[i].wf
    /\ deleted = {}
    /\ \E a \in {NoFile} \cup ChkMedia, a2 \in {NoFile, <<"data", 1>>},
          old \in {NoFile, <<"data", 2>>}, sc \in HistSidecars(RecA) :
         localfs = [f \in HistPaths |->
                      CASE f = RecA -> a
                        [] f = RecA2 -> a2
                        [] f = RecAOld -> old
                        [] f = chkfileOf(RecA) -> sc
                        [] f = RecB -> IF RecB \in Named(schedule) THEN <<"data", 1>> ELSE NoFile
                        [] OTHER -> NoFile]
    /\ share = [b \in {basename(f) : f \in HistPaths} |-> NoFile]
    /\ inv = [p \in ProcIds |-> Idle]

(* The recorder's trigger names any of the media files *)
HistArgs ==
    ArgVectors \cup {[flag |-> "", argc |-> 2, rec |-> r, err |-> NoErr] : r \in {RecA2, RecAOld}}

InvokeHist(p) ==
    /\ inv[p].pc = "idle"
    /\ \E a \in HistArgs : Set(p, [inv[p] EXCEPT !.pc = "main", !.argv = a])
    /\ UNCHANGED <<clock, schedule, deleted, localfs, share>>

StepHist(p) ==
    \/ InvokeHist(p)
    \/ MainPrevious(p)
    \/ MainOK(p)
    \/ MainUpstreamError(p)
    \/ MainRecording(p)
    \/ MainNoArgs(p)
    \/ CheckRecordings(p)
    \/ CheckShare(p)
    \/ GenerateChecksum(p)
    \/ MoveRecording(p)
    \/ CheckForRecordings(p)
    \/ ProcessNext(p)
    \/ ProcessEnd(p)

NextHist == \E p \in MainProcs : StepHist(p)

SpecHist == InitHist /\ [][NextHist]_vars

(* Two invocations at overlapping times: the recorder's trigger (or any    *)
(* other command line) and a sweep started by cron ('-p') while the first  *)
(* is still running.  The script takes no lock: the steps of the two       *)
(* interleave freely.  The runs start from a schedule whose descriptors    *)
(* all parse and whose recordings are all on disk.                         *)
InitOverlap ==
    /\ Init
    /\ \A i \in 1..Len(schedule) : schedule[i].wf
    /\ \A f \in {RecA} \cup Named(schedule) : exists(localfs, f)

InvokeOverlap(p) ==
    /\ inv[p].pc = "idle"
    /\ Set(p, [inv[p] EXCEPT !.pc = "main",
                             !.argv = [flag |-> "-p", argc |-> 2, rec |-> NoName, err |-> NoErr]])
    /\ UNCHANGED <<clock, schedule, deleted, localfs, share>>

StepOverlap(p) ==
    \/ InvokeOverlap(p)
    \/ MainPrevious(p)
    \/ CheckForRecordings(p)
    \/ CheckShare(p)
    \/ ProcessNext(p)
    \/ GenerateChecksum(p)
    \/ MoveRecording(p)
    \/ ProcessEnd(p)

NextOverlap ==
    \/ \E p \in MainProcs : Step(p)
    \/ \E p \in LaterProcs : StepOverlap(p)

SpecOverlap == InitOverlap /\ [][NextOverlap]_vars

NextClock ==
    \/ \E p \in MainProcs : Step(p)
    \/ Tick

SpecClock == InitClock /\ [][NextClock]_vars

----------------------------------------------------------------------------
(* Vocabulary of the properties *)

Idx(r) == 1..Len(r.log)

TransferOps == {"generateChecksum", "moveRecording"}

(* The invocation was given an upstream error (second argument not 'OK') *)
UpstreamError(r) == r.argv.flag = "" /\ r.argv.argc > 2 /\ strip(r.argv.err) # OK

Started(r) == r.pc \notin {"idle", "main"}

(* The descriptors of the schedule directory that parse *)
Parsed == {i \in 1..Len(schedule) : i \notin deleted /\ schedule[i].wf}

AllParse == \A i \in 1..Len(schedule) : schedule[i].wf

(* Schedule entries by the definitions of the specification, at time n *)
EntryImminent(n) == \E i \in Parsed : n < schedule[i].start /\ schedule[i].start < n + pvr_interval

EntryInProgress(n) == \E i \in Parsed : schedule[i].start <= n /\ n <= schedule[i].stop

EntryUpcomingWithin(n) == \E i \in Parsed : n < schedule[i].start /\ schedule[i].start < n + pvr_interval

(* The file f has been delivered: media file and sidecar are on the share *)
OnShare(f) == share[basename(f)] # NoFile /\ share[basename(chkfileOf(f))] # NoFile

NumAlerts(r, kind) == Cardinality({i \in 1..Len(r.alerts) : r.alerts[i].kind = kind})

NumEvents(r, op, results) ==
    Cardinality({i \in Idx(r) : r.log[i].op = op /\ r.log[i].res \in results})

----------------------------------------------------------------------------
(* C1: whenever the schedule holds an entry that starts within the guard   *)
(* interval (now < start < now + pvr_interval), the conflict check of the  *)
(* single-recording path and the one of the backlog sweep end the          *)
(* invocation with exit code 0, with no alert, no checksum and no move     *)
(* made by that path, whatever the other descriptors are.                  *)
C1_Deferral ==
    \A p \in MainProcs :
      LET r == inv[p]
      IN  \A i \in Idx(r) :
            (/\ r.log[i].op \in {"checkRecordings", "checkForRecordings"}
             /\ EntryImminent(r.log[i].info[1]))
            => /\ r.pc = "done"
               /\ r.exitcode = 0
               /\ \A j \in Idx(r) :
                    r.log[j].stage = r.log[i].stage => r.log[j].op \notin TransferOps
               /\ \A a \in 1..Len(r.alerts) : r.alerts[a].kind = "tvh"

(* C2: whenever the schedule holds an entry with start <= now <= stop, the *)
(* conflict check (checkRecordings, checkForRecordings with abort) does    *)
(* not come out clear: the invocation ends at the check with exit code 0,  *)
(* before any share probe, checksum or move.  Stated for schedules whose   *)
(* descriptors all parse.                                                  *)
C2_InProgressAbort ==
    \A p \in MainProcs :
      LET r == inv[p]
      IN  \A i \in Idx(r) :
            (/\ AllParse
             /\ r.log[i].op \in {"checkRecordings", "checkForRecordings"}
             /\ EntryInProgress(r.log[i].info[1]))
            => /\ r.log[i].res # "clear"
               /\ \A j \in Idx(r) : j > i => r.log[j].op = "raise"
               /\ r.pc = "done" /\ r.exitcode = 0

(* C3: a backlog sweep that finds a completed entry (stop < now, filename  *)
(* present, file on disk), no entry in progress and no upcoming entry      *)
(* starting within the guard interval, and that meets no share, checksum   *)
(* or move failure, ends with the entry's media file and sidecar on the    *)
(* share.  Stated for backlog-only invocations and schedules whose         *)
(* descriptors all parse.                                                  *)
C3_BacklogTransfers ==
    \A p \in MainProcs :
      LET r == inv[p]
          n == clock
          failed == \E i \in Idx(r) :
                       \/ r.log[i].op = "checkShare" /\ r.log[i].res # "ok"
                       \/ r.log[i].op = "generateChecksum" /\ r.log[i].res = "IOError"
                       \/ r.log[i].op = "moveRecording" /\ r.log[i].res # "ok"
      IN  (/\ r.pc = "done"
           /\ r.argv.argc = 1 \/ r.argv.flag = "-p"
           /\ AllParse
           /\ ~EntryInProgress(n)
           /\ ~EntryUpcomingWithin(n)
           /\ ~failed)
          => \A k \in Parsed :
               (/\ schedule[k].stop < n
                /\ schedule[k].filename # NoName
                /\ exists(localfs, schedule[k].filename) \/ OnShare(schedule[k].filename))
               => OnShare(schedule[k].filename)

(* The move that has just been made: the last event of the history, or the *)
(* last but one when the move raised. *)
JustMoved(r, i) ==
    /\ r.log[i].op = "moveRecording"
    /\ \/ i = Len(r.log)
       \/ i = Len(r.log) - 1 /\ r.log[Len(r.log)].op = "raise"

(* C4: right after moveRecording: if it succeeded, neither source file is  *)
(* left and both are on the share; if it failed, both source files are     *)
(* still in place and one transfer alert has been sent for it.             *)
C4_MoveAllOrNothing ==
    \A p \in MainProcs :
      LET r == inv[p]
      IN  \A i \in Idx(r) :
            JustMoved(r, i) =>
              IF r.log[i].res = "ok"
              THEN /\ ~exists(localfs, r.recfile) /\ ~exists(localfs, r.chkfile)
                   /\ OnShare(r.recfile)
              ELSE /\ exists(localfs, r.recfile) /\ exists(localfs, r.chkfile)
                   /\ NumAlerts(r, "transfer") = NumEvents(r, "moveRecording", {"Error", "IOError"})

(* C5: no failure of a file move leaves moveRecording as an exception:    *)
(* every failed move is alerted and moveRecording returns.                 *)
C5_MoveNeverRaises ==
    \A p \in MainProcs :
      LET r == inv[p]
      IN  /\ \A i \in Idx(r) :
               (r.log[i].op = "raise" /\ i > 1) => r.log[i - 1].op # "moveRecording"
          /\ NumAlerts(r, "transfer") = NumEvents(r, "moveRecording", {"Error", "IOError"})

(* C6: a failed move does not end the invocation: in the single-recording  *)
(* path the backlog sweep is started next, in the sweep the loop goes on   *)
(* to its next entry (or returns when none is left).                       *)
C6_MoveFailureContinues ==
    \A p \in MainProcs :
      LET r == inv[p]
      IN  \A i \in Idx(r) :
            (r.log[i].op = "moveRecording" /\ r.log[i].res # "ok")
            => IF i < Len(r.log) THEN r.log[i + 1].op # "raise"
               ELSE IF r.log[i].stage = "single" THEN r.pc = "checkForRecordings"
               ELSE r.pc = "processNext" \/ (r.pc = "done" /\ r.ending = "returned")

(* C7: given a recording and an error string whose trimmed value is not    *)
(* 'OK', the single-recording step makes no conflict check, share probe,   *)
(* checksum or move, sends exactly one alert, which names the recording    *)
(* and the error text, and the backlog sweep is started next.              *)
C7_UpstreamError ==
    \A p \in MainProcs :
      LET r == inv[p]
      IN  (UpstreamError(r) /\ Started(r))
          => /\ \A i \in Idx(r) : r.log[i].stage # "single"
             /\ r.alerts # <<>>
             /\ Head(r.alerts) = Alert("tvh", r.argv.rec, NoName, r.argv.err)
             /\ NumAlerts(r, "tvh") = 1
             /\ r.stage = "backlog"
             /\ r.pc = "checkForRecordings" => r.alerts = <<Alert("tvh", r.argv.rec, NoName, r.argv.err)>>
             /\ r.pc # "checkForRecordings" => \E i \in Idx(r) : r.log[i].op = "checkForRecordings"

(* C7 witness: an invocation with an upstream error has sent the alert and *)
(* its backlog sweep has classified the schedule.                          *)
C7_Witness ==
    \E p \in MainProcs :
      LET r == inv[p]
      IN  /\ UpstreamError(r)
          /\ NumAlerts(r, "tvh") = 1
          /\ \E i \in Idx(r) : r.log[i].op = "checkForRecordings" /\ r.log[i].res = "clear"

C9_ShareFailureFatal ==
    \A p \in MainProcs :
      LET r == inv[p]
      IN  \A i \in Idx(r) :
            (r.log[i].op = "checkShare" /\ r.log[i].res \in {"unmounted", "unwritable", "timeout"})
            => /\ i = Len(r.log)
               /\ r.pc = "done" /\ r.ending = "exit"
               /\ r.exitcode # None /\ r.exitcode # 0
               /\ NumAlerts(r, "share") = 1
               /\ r.alerts[Len(r.alerts)].kind = "share"

(* C9 witness: the probe of the backlog sweep met a share that is not      *)
(* writable, after the single-recording path had delivered its recording.  *)
C9_Witness ==
    \E p \in MainProcs :
      LET r == inv[p]
      IN  /\ r.pc = "done"
          /\ \E i \in Idx(r) :
               r.log[i].op = "checkShare" /\ r.log[i].stage = "backlog" /\ r.log[i].res = "unwritable"
          /\ \E i \in Idx(r) :
               r.log[i].op = "checkShare" /\ r.log[i].stage = "single" /\ r.log[i].res = "ok"

(* C10: the cleanup of a stale entry never ends the sweep and never sends  *)
(* an alert: whatever the descriptor holds and whatever the control        *)
(* channel answers, the classification goes on past the entry, and the     *)
(* only alerts are those of failed share probes and failed moves.  Stated  *)
(* for schedules whose descriptors all parse.                              *)
C10_ReconcileBestEffort ==
    \A p \in MainProcs :
      LET r == inv[p]
      IN  \A i \in Idx(r) :
            (AllParse /\ r.log[i].op = "reconcile")
            => /\ \E j \in Idx(r) :
                    /\ j > i
                    /\ r.log[j].op = "checkForRecordings"
                    /\ r.log[j].res \notin {"KeyError", "AttributeError"}
               /\ NumAlerts(r, "share") = NumEvents(r, "checkShare", ShareOutcomes \ {"ok"})
               /\ NumAlerts(r, "transfer") = NumEvents(r, "moveRecording", {"Error"})

(* C11: a schedule descriptor that cannot be parsed (or lacks 'start' or   *)
(* 'stop') stops the step that reads it, and the exception is caught and   *)
(* logged by the top-level handler in every invocation mode: the process   *)
(* ends normally, never with an uncaught exception.                        *)
C11_MalformedCaught ==
    \A p \in MainProcs :
      LET r == inv[p]
      IN  \A i \in Idx(r) :
            (r.log[i].op = "raise" /\ r.log[i].res = "schedule")
            => /\ r.pc = "done"
               /\ r.ending = "caught"
               /\ r.exitcode = 0

(* C12: the diagnostics invocation always gets to its report: whatever its *)
(* checks meet, it never ends with a failure exit code, it ends having     *)
(* mailed the one report, and its share probe (report = False) never sends *)
(* a share alert and never ends the process.                               *)
C12_DiagnosticsCompletes ==
    \A p \in MainProcs :
      LET r == inv[p]
      IN  r.argv.flag = "-t"
          => /\ NumAlerts(r, "share") = 0
             /\ r.pc = "done" => /\ r.exitcode = 0
                                 /\ r.ending = "returned"
                                 /\ NumAlerts(r, "report") = 1

(* C13: with recompute = False, two calls of generateChecksum on the same  *)
(* media file that both return give the same sidecar path and leave the    *)
(* same sidecar content, and the second call computes no digest and writes *)
(* nothing (it finds the sidecar and keeps it).                            *)
C13_ChecksumIdempotent ==
    \A p \in MainProcs :
      LET r == inv[p]
      IN  \A i \in Idx(r), j \in Idx(r) :
            (/\ i < j
             /\ r.log[i].op = "generateChecksum" /\ r.log[j].op = "generateChecksum"
             /\ r.log[i].stage = "call" /\ r.log[j].stage = "call"
             /\ r.log[i].path = r.log[j].path
             /\ r.log[i].res # "IOError" /\ r.log[j].res # "IOError")
            => /\ r.log[j].res = "kept"
               /\ r.log[j].info = r.log[i].info

(* C13 witness: the first call wrote the sidecar, the second kept it. *)
C13_Witness ==
    \E p \in MainProcs :
      LET r == inv[p]
      IN  \E i \in Idx(r), j \in Idx(r) :
            /\ i < j
            /\ r.log[i].stage = "call" /\ r.log[j].stage = "call"
            /\ r.log[i].path = r.log[j].path
            /\ r.log[i].res = "wrote" /\ r.log[j].res = "kept"
            /\ localfs[r.log[j].info[1]] = r.log[i].info[2]

(* C14: when every descriptor of the schedule parses and has its start at  *)
(* or after now + pvr_interval, checkRecordings finds no conflict and the  *)
(* single-recording path goes on to the share probe, however many entries  *)
(* there are and in whatever order they are read.                          *)
C14_ClearVerdict ==
    \A p \in MainProcs :
      LET r == inv[p]
      IN  \A i \in Idx(r) :
            (/\ r.log[i].op = "checkRecordings"
             /\ \A k \in 1..Len(schedule) :
                  schedule[k].wf /\ schedule[k].start >= r.log[i].info[1] + pvr_interval)
            => /\ r.log[i].res = "clear"
               /\ i = Len(r.log) => r.pc = "checkShare"
               /\ i < Len(r.log) => r.log[i + 1].op = "checkShare"

(* C14 witness: two entries, the later one read first, the earlier one     *)
(* starting exactly at now + pvr_interval; the path has gone on.           *)
C14_Witness ==
    \E p \in MainProcs :
      LET r == inv[p]
      IN  /\ Len(schedule) = 2
          /\ schedule[1].wf /\ schedule[2].wf
          /\ schedule[1].start > schedule[2].start
          /\ \E i \in Idx(r) :
               /\ r.log[i].op = "checkRecordings" /\ r.log[i].res = "clear"
               /\ schedule[2].start = r.log[i].info[1] + pvr_interval
               /\ i < Len(r.log) /\ r.log[i + 1].op = "checkShare"

(* C15: at no moment of an invocation is a checksum computation or a move  *)
(* under way while a schedule entry is being recorded (start < now < stop) *)
(* or starts within the guard interval (now < start < now + pvr_interval), *)
(* the clock advancing while the share probe, the checksum and the move    *)
(* run.  Stated for the entries that were still to start when the          *)
(* invocation made its conflict check (start > inv[p].now).                *)
C15_NoOverlap ==
    \A p \in MainProcs :
      inv[p].pc \in {"generateChecksum", "moveRecording"}
      => \A i \in Parsed :
           schedule[i].start > inv[p].now
           => /\ ~(schedule[i].start < clock /\ clock < schedule[i].stop)
              /\ ~(clock < schedule[i].start /\ schedule[i].start < clock + pvr_interval)

(* The conflict check of a path came out clear / ended the invocation *)
ConflictChecks == {"checkRecordings", "checkForRecordings"}

ConflictAborts == {"current", "next", "nothing"}

(* Every checksum and every move is preceded, on its path, by a conflict   *)
(* check that came out clear and then by a share probe that found the      *)
(* share mounted and writable.                                             *)
CheckedBeforeTransfer(r) ==
    \A i \in Idx(r) :
      (r.log[i].op \in TransferOps /\ r.log[i].stage \in {"single", "backlog"})
      => \E j \in Idx(r), k \in Idx(r) :
           /\ j < k /\ k < i
           /\ r.log[j].op \in ConflictChecks
           /\ r.log[j].stage = r.log[i].stage
           /\ r.log[j].res = "clear"
           /\ r.log[k].op = "checkShare"
           /\ r.log[k].stage = r.log[i].stage
           /\ checkShare(r.log[k].res, TRUE).mounted
           /\ checkShare(r.log[k].res, TRUE).writable

(* The conflict check of a path ends the invocation only before any share  *)
(* probe, checksum or move of that path.                                   *)
AbortBeforeProbe(r) ==
    \A i \in Idx(r) :
      (r.log[i].op \in ConflictChecks /\ r.log[i].res \in ConflictAborts)
      => \A j \in 1..(i - 1) :
           r.log[j].stage = r.log[i].stage
           => r.log[j].op \notin {"checkShare"} \cup TransferOps

(* C16 as claimed: the order of the stages holds on both paths, and an     *)
(* abort for a conflict (by the conflict check or by the re-check of the   *)
(* sweep) comes only before any share probe, checksum or move of the path. *)
C16_StageOrdering ==
    \A p \in MainProcs :
      LET r == inv[p]
      IN  /\ CheckedBeforeTransfer(r)
          /\ AbortBeforeProbe(r)
          /\ \A i \in Idx(r) :
               (r.log[i].op = "recheck" /\ r.log[i].res = "skipped")
               => \A j \in 1..(i - 1) :
                    r.log[j].stage = r.log[i].stage
                    => r.log[j].op \notin {"checkShare"} \cup TransferOps

(* C16 amended: the order of the stages holds on both paths; the conflict  *)
(* check of a path aborts only before any share probe, checksum or move of *)
(* that path; the sweep may also stop for a conflict at the re-check it    *)
(* makes before each item, which comes after its share probe (and after    *)
(* the transfer of the items before).                                      *)
C16_Amended ==
    \A p \in MainProcs :
      LET r == inv[p]
      IN  /\ CheckedBeforeTransfer(r)
          /\ AbortBeforeProbe(r)
          /\ \A i \in Idx(r) :
               r.log[i].op = "recheck"
               => /\ r.log[i].stage = "backlog"
                  /\ \E k \in 1..(i - 1) :
                       /\ r.log[k].op = "checkShare" /\ r.log[k].stage = "backlog"
                       /\ r.log[k].res = "ok"
                  /\ r.log[i].res = "skipped" => (i = Len(r.log) /\ r.pc = "done" /\ r.exitcode = 0)

(* C16 witness: the single-recording path has moved its recording, and the *)
(* sweep that followed was stopped by its re-check after its share probe.  *)
C16_Witness ==
    \E p \in MainProcs :
      LET r == inv[p]
      IN  /\ \E i \in Idx(r) :
               r.log[i].op = "moveRecording" /\ r.log[i].stage = "single" /\ r.log[i].res = "ok"
          /\ \E i \in Idx(r) : r.log[i].op = "recheck" /\ r.log[i].res = "skipped"

RequestSent(ev) == ev.op = "reconcile" /\ ev.res \in Responses \cup {"AttributeError"}

(* C18: deleteDvrEntry is sent for an entry only if the descriptor just    *)
(* read has stop < now, names a file, that file is not on disk, errors = 0 *)
(* and data_errors = 0, and there is a control connection; and TVHeadend   *)
(* removes an entry only in answer to such a request.                      *)
C18_DeleteOnlyCandidates ==
    /\ \A p \in MainProcs :
         LET r == inv[p]
         IN  \A i \in Idx(r) :
               RequestSent(r.log[i])
               => LET k == r.log[i].id
                  IN  /\ k \in 1..Len(schedule) /\ schedule[k].wf
                      /\ schedule[k].stop < r.now
                      /\ schedule[k].filename # NoName
                      /\ r.log[i].path = schedule[k].filename
                      /\ ~exists(localfs, schedule[k].filename)
                      /\ r.log[i].info = <<0, 0, TRUE>>
    /\ \A k \in deleted :
         \E p \in MainProcs : \E i \in Idx(inv[p]) :
           /\ inv[p].log[i].op = "reconcile"
           /\ inv[p].log[i].id = k
           /\ inv[p].log[i].res = "success"

(* C18 witness: an entry was removed, while another descriptor of the      *)
(* schedule, whose recording is not over, was left alone.                  *)
C18_Witness ==
    /\ deleted # {}
    /\ \E k \in 1..Len(schedule) : k \notin deleted /\ schedule[k].wf /\ schedule[k].stop >= clock
    /\ \E p \in MainProcs : \E i \in Idx(inv[p]) : inv[p].log[i].op = "checkForRecordings"

(* The invocation met no failure of its own (share probe, checksum, move) *)
(* and raised no exception                                                 *)
NoFailure(r) ==
    \A i \in Idx(r) :
      /\ r.log[i].op # "raise"
      /\ r.log[i].op = "checkShare" => r.log[i].res = "ok"
      /\ r.log[i].op = "generateChecksum" => r.log[i].res # "IOError"
      /\ r.log[i].op = "moveRecording" => r.log[i].res = "ok"

(* C19: when a move of recording f failed in one invocation, a later sweep *)
(* that runs with no conflict (no entry in progress, none starting within  *)
(* the guard interval) and meets no failure of its own leaves both f and   *)
(* its sidecar on the share.  Stated for a recording that a descriptor of  *)
(* the schedule names as over, for schedules whose descriptors all parse   *)
(* and that hold an entry still to start.                                  *)
C19_RetryDelivers ==
    \A p \in MainProcs, q \in LaterProcs, f \in Recordings :
      (/\ \E i \in Idx(inv[p]) :
            /\ inv[p].log[i].op = "moveRecording"
            /\ inv[p].log[i].path = f
            /\ inv[p].log[i].res # "ok"
       /\ inv[q].pc = "done"
       /\ NoFailure(inv[q])
       /\ AllParse
       /\ \E k \in 1..Len(schedule) : schedule[k].filename = f /\ schedule[k].stop < clock
       /\ \E k \in 1..Len(schedule) : schedule[k].start > clock
       /\ ~EntryInProgress(clock)
       /\ ~EntryImminent(clock))
      => OnShare(f)

(* C20: a sweep that its classification ends because an entry is in        *)
(* progress, because the nearest upcoming start is within pvr_interval or  *)
(* because no completed entry has its file on disk has sent no             *)
(* deleteDvrEntry request before ending.                                   *)
C20_NoCleanupWhenDeferred ==
    \A p \in MainProcs :
      LET r == inv[p]
      IN  \A i \in Idx(r) :
            (/\ r.log[i].op = "checkForRecordings"
             /\ r.log[i].stage = "backlog"
             /\ r.log[i].res \in ConflictAborts)
            => \A j \in 1..(i - 1) : ~RequestSent(r.log[j])

(* The sidecar delivered for f holds the digest of the media file          *)
(* delivered for f and the base name of f                                  *)
SidecarMatches(f) ==
    share[basename(chkfileOf(f))] = sidecarContent(generateFileChecksum(share[basename(f)]), basename(f))

(* C21: right after a move that delivered a media file and its sidecar,    *)
(* the sidecar on the share holds the digest of the content the media      *)
(* file had when it was moved and the base name of that media file,        *)
(* whatever earlier invocations left in the recording directory.           *)
C21_SidecarMatches ==
    \A p \in MainProcs :
      LET r == inv[p]
      IN  \A i \in Idx(r) :
            (JustMoved(r, i) /\ r.log[i].res = "ok")
            => SidecarMatches(r.log[i].path)

(* The invocation is in the checksum-or-move stage for f: it is computing  *)
(* the digest of f or moving f and its sidecar                             *)
InTransfer(r, f) == r.pc \in TransferOps /\ r.recfile = f

(* C22: two invocations that run at overlapping times are never both in    *)
(* the checksum-or-move stage for the same recording file; in particular   *)
(* none is at the move of a file while the other is at its digest.         *)
C22_NoDoubleProcessing ==
    \A p \in ProcIds, q \in ProcIds :
      p # q
      => \A f \in Recordings : ~(InTransfer(inv[p], f) /\ InTransfer(inv[q], f))

(* C23: a move never replaces a file already on the share: whatever a step *)
(* of an invocation does, every file that was on the share before it is    *)
(* there afterwards with the same content.                                 *)
C23_MoveNeverReplaces ==
    [][\A b \in DOMAIN share : share[b] # NoFile => share'[b] = share[b]]_vars

(* C24: no step of a diagnostics invocation sends a deleteDvrEntry         *)
(* request, writes a sidecar or moves a file: the schedule, the entries    *)
(* TVHeadend holds, the recording directory and the share are after the    *)
(* step what they were before it.                                          *)
C24_DiagnosticsReadOnly ==
    [][/\ UNCHANGED <<schedule, deleted, localfs, share>>
       /\ \A p \in MainProcs : \A i \in 1..Len(inv'[p].log) : ~RequestSent(inv'[p].log[i])]_vars

====
